---- MODULE Spec2Model ----
(***************************************************************************)
(* PressPaper: the ingestion pipeline of gov.wales listings.               *)
(*                                                                         *)
(* Three parts share this module:                                          *)
(*   - the link collectors (extractor_wales.collect_links,                 *)
(*     ingest_service.scraper.collect_links, collector_wales               *)
(*     .fetch_wales_links) as pure operators over the listing pages of     *)
(*     the site, exercised by SpecCollect;                                 *)
(*   - the article table of database.py (upsert_article, toggle_save,      *)
(*     update_text, get_articles), exercised by SpecStore and SpecQuery;   *)
(*   - the orchestrators (run_ingest_once behind POST /run and the         *)
(*     background scheduler, run_pipeline as a command-line job),          *)
(*     exercised by Spec, SpecService and FairSpec.                        *)
(*                                                                         *)
(* A string of the program is a sequence of pieces (words, separators,     *)
(* path tokens, single characters), each a TLA+ string: its length is the  *)
(* sum of the lengths of its pieces, `in` / ILIKE is a contiguous          *)
(* occurrence of pieces, lower() maps each piece.  Fields the code only    *)
(* forwards or compares for equality (column names, tags) are             *)
(* plain TLA+ strings.                                                     *)
(***************************************************************************)
EXTENDS Integers, Sequences, FiniteSets, TLC

VARIABLES
    listing,    \* the site: (category index, page number) -> anchors in <main>
    failing,    \* the listing page whose fetch raises, or NoPage
    collected,  \* result of the link-collection call made, or NotCollected
    article,    \* the site: URL -> what a GET of the article answers
    store,      \* table articles, rows in insertion order; id = position
    recency,    \* ids by updated_at, latest first
    lastOp,     \* history: the last statement run on the table
    edits,      \* history: number of reader edits made (bounded)
    queried,    \* the last get_articles call and its result, or NoQuery
    run,        \* runner -> control state of its orchestrator call
    ingestDone, \* history: some run_ingest_once call has returned
    called,     \* the last call of guess_topics / extract_article and its result
    service     \* the ingest service: is DATABASE_URL set, last /health answer

vars ==
    <<listing, failing, collected, article, store, recency, lastOp, edits, queried,
      run, ingestDone, called, service>>

siteVars == <<listing, failing>>
tableVars == <<store, recency, lastOp>>

\* SQL NULL / Python None: a reserved one-piece value, distinct from every
\* string of the model and from the empty string <<>>
None == <<"None">>
NoPage == <<0, 0>>

\* no guess_topics / extract_article call made on its own yet
NoCall == [fn |-> "none"]

\* the service process with DATABASE_URL set, no /health request answered
Configured == [configured |-> TRUE, health |-> "none"]

-----------------------------------------------------------------------------
(* Sequences *)

RECURSIVE SeqFilter(_, _)
\* [x for x in s if x in keep], order kept
SeqFilter(s, keep) ==
    IF s = <<>> THEN <<>>
    ELSE IF Head(s) \in keep
         THEN <<Head(s)>> \o SeqFilter(Tail(s), keep)
         ELSE SeqFilter(Tail(s), keep)

\* `part in whole` for token sequences: a contiguous occurrence
Contains(whole, part) ==
    \E i \in 0..(Len(whole) - Len(part)) :
        \A j \in 1..Len(part) : whole[i + j] = part[j]

\* whole.endswith(suffix)
EndsWith(whole, suffix) ==
    /\ Len(suffix) <= Len(whole)
    /\ \A j \in 1..Len(suffix) : whole[Len(whole) - Len(suffix) + j] = suffix[j]

\* s.startswith(prefix)
StartsWith(whole, prefix) ==
    /\ Len(prefix) <= Len(whole)
    /\ \A j \in 1..Len(prefix) : whole[j] = prefix[j]

\* len(s) of a string given by its pieces
CharLen[s \in Seq(STRING)] ==
    IF s = <<>> THEN 0 ELSE Len(Head(s)) + CharLen[Tail(s)]

\* the pieces of the model that hold an upper-case letter, lower-cased
LowerMap ==
    [ Budget |-> "budget", Housing |-> "housing", Sign |-> "sign",
      NHS |-> "nhs", The |-> "the", Welsh |-> "welsh", Government |-> "government",
      Wales |-> "wales", Transport |-> "transport", Digital |-> "digital" ]

LowerPiece(w) == IF w \in DOMAIN LowerMap THEN LowerMap[w] ELSE w

\* s.lower(); also the case folding of ILIKE
RECURSIVE Lower(_)
Lower(s) == IF s = <<>> THEN <<>> ELSE <<LowerPiece(Head(s))>> \o Lower(Tail(s))

-----------------------------------------------------------------------------
(* The site constants of the three collectors *)

BASE == <<"https://www.gov.wales">>

\* CATEGORIES in declaration (= dict iteration) order; the scraper and the
\* extractor key a category by "/slug", collector_wales by the bare slug.
CATEGORIES ==
    << [name |-> <<"Announcements">>,           slug |-> "announcements"],
       [name |-> <<"Consultations">>,           slug |-> "consultations"],
       [name |-> <<"Publications">>,            slug |-> "publications"],
       [name |-> <<"Statistics and Research">>, slug |-> "statistics-and-research"] >>

\* max_pages_each as every caller passes it
MaxPagesEach == 2

PageKeys == (1..Len(CATEGORIES)) \X (0..(MaxPagesEach - 1))

JUNK_URL_BITS ==
    { <<"/", "rss">>, <<"/", "cookies">>, <<"/", "privacy">>, <<"/", "terms">>,
      <<"/", "accessibility">>, <<"/", "sitemap">>, <<"/", "search">>,
      <<"/", "newsletter">> }

\* urljoin(BASE, href): an absolute path replaces the path of BASE, a href
\* with its own scheme stands as it is, anything else resolves under BASE
UrlJoin(base, href) ==
    IF href = <<>> THEN base
    ELSE IF href[1] = "/" THEN base \o href
    ELSE IF href[1] \in {"http://", "https://"} THEN href
    ELSE base \o <<"/">> \o href

\* scraper.looks_junk
looks_junk(url) == \E bit \in JUNK_URL_BITS : Contains(url, bit)

\* JUNK_TITLE_PATTERNS by shape: ^p$ (exact), ^p.* (prefix), p (search)
JUNK_TITLE_EXACT == { <<"home">>, <<"rss">> }
JUNK_TITLE_PREFIX == { <<"newsletter">> }
JUNK_TITLE_SEARCH ==
    { <<"sign", " ", "up">>, <<"subscribe">>, <<"clear", " ", "filters">>,
      <<"skip", " ", "to">>, <<"previous", " ", "page">>, <<"next", " ", "page">>,
      <<"report", " ", "anything", " ", "wrong">>,
      <<"share", " ", "this", " ", "page">>, <<"about", " ", "consultations">>,
      <<"about", " ", "statistics", " ", "and", " ", "research">>,
      <<"how", " ", "we", " ", "use", " ", "your", " ", "data">>,
      <<"terms", " ", "and", " ", "conditions">>, <<"accessibility">> }

\* \d+ on one piece
IsDigits(w) == w \in {"0", "1", "2", "3", "10", "2024"}

\* re.search(pat, t) for some pat of JUNK_TITLE_PATTERNS
MatchesJunkTitle(t) ==
    \/ t \in JUNK_TITLE_EXACT
    \/ \E p \in JUNK_TITLE_PREFIX : StartsWith(t, p)
    \/ \E p \in JUNK_TITLE_SEARCH : Contains(t, p)
    \/ /\ Len(t) \in {2, 3}                       \* ^page\s*\d+$
       /\ t[1] = "page" /\ IsDigits(t[Len(t)])
       /\ \A j \in 2..(Len(t) - 1) : t[j] = " "
    \/ Len(t) = 1 /\ IsDigits(t[1])               \* ^\d+$

\* extractor_wales.looks_like_junk, first component of its result
looks_like_junk(title, url) ==
    LET t == Lower(title)
    IN  \/ \E bit \in JUNK_URL_BITS : Contains(url, bit)
        \/ MatchesJunkTitle(t)
        \/ StartsWith(t, <<"view", " ", "all">>)

-----------------------------------------------------------------------------
(* Anchors of a listing page and the candidates made from them *)

HrefA == <<"/", "a">>
HrefB == <<"/", "b", ".pdf">>
HrefRss == <<"/", "rss">>

TitleBudget == <<"Budget", " ", "statement">>
TitleHousing == <<"Housing", " ", "update", " ", "2024">>
TitleSignUp == <<"Sign", " ", "up", " ", "now">>

AnchorA1 == [href |-> HrefA, title |-> TitleBudget]
AnchorA2 == [href |-> HrefA, title |-> TitleHousing]
AnchorB1 == [href |-> HrefB, title |-> TitleBudget]

Anchors ==
    { AnchorA1, AnchorA2, AnchorB1,
      [href |-> HrefB,   title |-> TitleSignUp],
      [href |-> HrefRss, title |-> TitleBudget] }

Item(category, a) ==
    [category |-> category, title |-> a.title, url |-> UrlJoin(BASE, a.href)]

\* scraper.collect_links: the filter of one anchor
KeepScraper(a) ==
    /\ a.href # <<>> /\ a.href[1] = "/"
    /\ CharLen[a.title] >= 12
    /\ ~looks_junk(UrlJoin(BASE, a.href))

\* extractor_wales.collect_links: the filter of one anchor
KeepExtractor(a) ==
    /\ a.href # <<>> /\ a.href[1] = "/"
    /\ CharLen[a.title] >= 8
    /\ ~looks_like_junk(a.title, UrlJoin(BASE, a.href))

\* collector_wales._collect_from_listing: the filter of one anchor
KeepCollector(a, slug) ==
    /\ a.href # <<>> /\ a.title # <<>>
    /\ LET full == UrlJoin(BASE, a.href)
       IN  /\ ~EndsWith(full, <<slug>>)
           /\ ~EndsWith(full, <<slug, "/">>)
           /\ ~Contains(full, <<"/", "node", "/">>)

RECURSIVE PageItems(_, _, _, _)
\* the candidates one listing page contributes, in document order
PageItems(anchors, c, keepS, keepE) ==
    IF anchors = <<>> THEN <<>>
    ELSE LET a == Head(anchors)
             keep == CASE keepS -> KeepScraper(a)
                       [] keepE -> KeepExtractor(a)
                       [] OTHER -> KeepCollector(a, CATEGORIES[c].slug)
         IN  (IF keep THEN <<Item(CATEGORIES[c].name, a)>> ELSE <<>>)
                 \o PageItems(Tail(anchors), c, keepS, keepE)

\* the listing pages in the order the loops visit them
RECURSIVE PagesOf(_, _)
PagesOf(c, p) ==
    IF p >= MaxPagesEach THEN <<>> ELSE <<<<c, p>>>> \o PagesOf(c, p + 1)

RECURSIVE AllPages(_)
AllPages(c) ==
    IF c > Len(CATEGORIES) THEN <<>> ELSE PagesOf(c, 0) \o AllPages(c + 1)

RECURSIVE ItemsOfPages(_, _, _, _, _)
\* candidates of a run of pages; a failing page contributes nothing here
\* (whether its failure ends the call is decided by the caller)
ItemsOfPages(pages, site, bad, keepS, keepE) ==
    IF pages = <<>> THEN <<>>
    ELSE LET k == Head(pages)
         IN  (IF k = bad THEN <<>> ELSE PageItems(site[k], k[1], keepS, keepE))
                 \o ItemsOfPages(Tail(pages), site, bad, keepS, keepE)

RECURSIVE SeenOrder(_, _)
\* the URLs of `out` in first-seen order, each once
SeenOrder(out, seen) ==
    IF out = <<>> THEN <<>>
    ELSE IF Head(out).url \in seen
         THEN SeenOrder(Tail(out), seen)
         ELSE <<Head(out).url>> \o SeenOrder(Tail(out), seen \cup {Head(out).url})

FirstWith(out, u) == out[CHOOSE i \in 1..Len(out) :
                            /\ out[i].url = u
                            /\ \A j \in 1..(i - 1) : out[j].url # u]

LastWith(out, u) == out[CHOOSE i \in 1..Len(out) :
                            /\ out[i].url = u
                            /\ \A j \in (i + 1)..Len(out) : out[j].url # u]

\* {r["url"]: r for r in results} / uniq[item["url"]] = item, then
\* list(values()): a dict keeps the position of a key's first insertion and
\* the value of its last assignment
DictByUrl(out) ==
    LET keys == SeenOrder(out, {})
    IN  [i \in 1..Len(keys) |-> LastWith(out, keys[i])]

\* collector_wales: `if item["url"] not in seen` keeps the first item
DedupKeepFirst(out) ==
    LET keys == SeenOrder(out, {})
    IN  [i \in 1..Len(keys) |-> FirstWith(out, keys[i])]

\* no collection call made yet
NotCollected == [fn |-> "none", raised |-> FALSE, links |-> <<>>]

Raised == [raised |-> TRUE, links |-> <<>>]
Returned(links) == [raised |-> FALSE, links |-> links]

\* ingest_service.scraper.collect_links: requests.get / raise_for_status are
\* not guarded, so a failing page ends the call with the exception;
\* `results` is the list `out` the loops have filled, bound once
ScraperCollectLinks(site, bad) ==
    IF bad \in PageKeys THEN Raised
    ELSE CHOOSE r \in { Returned(DictByUrl(results)) :
                          results \in {ItemsOfPages(AllPages(1), site, bad, TRUE, FALSE)} } :
             TRUE

\* extractor_wales.collect_links: page.goto is not guarded either; `results`
\* is the list the loops have filled
ExtractorCollectLinks(site, bad) ==
    IF bad \in PageKeys THEN Raised
    ELSE CHOOSE r \in { Returned(DictByUrl(results)) :
                          results \in {ItemsOfPages(AllPages(1), site, bad, FALSE, TRUE)} } :
             TRUE

\* collector_wales._collect_from_listing: a failing page is skipped
\* (except ... continue), the dedup is per category; `items` is the list
\* `out` the loop has filled
CollectFromListing(c, site, bad) ==
    CHOOSE r \in { DedupKeepFirst(items) :
                     items \in {ItemsOfPages(PagesOf(c, 0), site, bad, FALSE, FALSE)} } :
        TRUE

RECURSIVE ExtendAll(_, _, _)
ExtendAll(c, site, bad) ==
    IF c > Len(CATEGORIES) THEN <<>>
    ELSE CollectFromListing(c, site, bad) \o ExtendAll(c + 1, site, bad)

\* collector_wales.fetch_wales_links: all_items.extend per category
FetchWalesLinks(site, bad) == Returned(ExtendAll(1, site, bad))

-----------------------------------------------------------------------------
(* The listing pages of the site *)

\* anchors on the whole site
MaxPosts == 2

RECURSIVE CountAnchors(_, _)
CountAnchors(pages, site) ==
    IF pages = <<>> THEN 0
    ELSE Len(site[Head(pages)]) + CountAnchors(Tail(pages), site)

EmptySite == [k \in PageKeys |-> <<>>]

-----------------------------------------------------------------------------
(* What a GET of an article URL answers, and the two extractors *)

WhiteSpace == {" ", "  ", "\n", "\n\n", "nbsp"}

\* sep.join(parts) for strings given by their pieces
JoinWith(parts, sep) ==
    LET Join[ps \in Seq(Seq(STRING))] ==
            IF ps = <<>> THEN <<>>
            ELSE IF Len(ps) = 1 THEN Head(ps)
            ELSE Head(ps) \o sep \o Join[Tail(ps)]
    IN  Join[parts]

\* s.replace("\xa0", " ").split(): the words of s, each a one-piece string
NonSpace[s \in Seq(STRING)] ==
    IF s = <<>> THEN <<>>
    ELSE IF Head(s) \in WhiteSpace THEN NonSpace[Tail(s)]
    ELSE << <<Head(s)>> >> \o NonSpace[Tail(s)]

\* _clean_text (scraper.py and extractor_wales.py): runs of white space
\* collapse to one blank, none at either end
CleanText(s) == JoinWith(NonSpace[s], <<" ">>)

\* a paragraph of k words, 10k - 1 characters
Para(k) == [i \in 1..(2 * k - 1) |-> IF i % 2 = 1 THEN "paragraph" ELSE " "]

\* a run of 120 characters of prose, carried as one piece: it holds no
\* keyword, no junk phrase and no white space the cleaning would change
Prose120 ==
    "the minister set out the measures for the coming year and the steps that are to follow in each part of the country over "

\* a paragraph of 2 * 120 + 2 + 9 = 251 characters
ParaLong == <<Prose120, " ", Prose120, " ", "paragraph">>

TextHealth == <<"The", " ", "NHS", "  ", "hospital", " ", "housing", " ", "plan">>

ElH1 == [tag |-> "h1", text |-> TitleBudget]
ElNav == [tag |-> "nav", text |-> <<"Sign", " ", "up">>]
ElHealth == [tag |-> "p", text |-> TextHealth]

Date1 == <<"2024-05-01">>

RespError ==
    [kind |-> "error", status |-> 0, ctype |-> <<>>, time |-> None,
     elements |-> <<>>, pdf |-> <<>>, corrupt |-> FALSE]

HtmlPage(time, elements) ==
    [kind |-> "ok", status |-> 200, ctype |-> <<"text", "/", "html">>,
     time |-> time, elements |-> elements, pdf |-> <<>>, corrupt |-> FALSE]

\* pages: the text of each page; corrupt: PdfReader raises on the bytes
PdfDoc(pages, corrupt) ==
    [kind |-> "ok", status |-> 200, ctype |-> <<"application", "/", "pdf">>,
     time |-> None, elements |-> <<>>, pdf |-> pages, corrupt |-> corrupt]

PageEmpty == HtmlPage(None, <<ElNav>>)
PageH1Only == HtmlPage(None, <<ElH1>>)
PageShort == HtmlPage(Date1, <<ElH1, ElHealth>>)
PageLong == HtmlPage(Date1, <<ElH1, ElNav, [tag |-> "p", text |-> ParaLong]>>)
\* a page of 251 characters that names a topic keyword
PageTransport ==
    HtmlPage(Date1, <<ElH1, [tag |-> "p",
                             text |-> <<Prose120, " ", Prose120, " ", "transport">>]>>)

\* requests.get returns a response of any status without raising: the page
\* the server sends with a 404
PageNotFound == [PageLong EXCEPT !.status = 404]
PdfOk == PdfDoc(<<Para(3), <<>>, TextHealth>>, FALSE)
PdfEmpty == PdfDoc(<< <<>>, <<" ">> >>, FALSE)
PdfCorrupt == PdfDoc(<<>>, TRUE)

\* tags removed by tag.decompose() before any text is collected
StrippedTags == {"script", "style", "nav", "footer", "header", "form", "aside"}

RECURSIVE PartsOf(_, _, _)
\* the cleaned text of every selected element that is long enough
PartsOf(elements, tags, minLen) ==
    IF elements = <<>> THEN <<>>
    ELSE LET el == Head(elements)
             txt == CleanText(el.text)
         IN  (IF /\ el.tag \notin StrippedTags
                 /\ el.tag \in tags
                 /\ txt # <<>> /\ CharLen[txt] >= minLen
              THEN <<txt>> ELSE <<>>)
                 \o PartsOf(Tail(elements), tags, minLen)

\* meta of an HTML page; `{}` elsewhere is the empty function <<>>
HtmlMeta(resp) ==
    [published |-> resp.time, doc_type |-> None, status |-> None, topics |-> None,
     organisations |-> <<"Welsh", " ", "Government">>, image_url |-> None]

\* meta.get(key), None for a missing key
MetaGet(meta, key) == IF key \in DOMAIN meta THEN meta[key] ELSE None

Extraction(text, meta, is_pdf, is_junk, reason) ==
    [text |-> text, meta |-> meta, is_pdf |-> is_pdf, is_junk |-> is_junk,
     reason |-> reason]

\* "pdf" in content-type or url.lower().endswith(".pdf")
LooksPdf(url, resp) ==
    \/ Contains(Lower(resp.ctype), <<"pdf">>)
    \/ EndsWith(Lower(url), <<".pdf">>)

\* extract_article of the scraper with a text of exactly 250 characters
\* counted as too small
ScraperJunkUpTo250(url, resp) ==
    IF resp.kind = "error"
    THEN Extraction(<<>>, <<>>, FALSE, TRUE, <<"request_failed", ":", "timeout">>)
    ELSE IF LooksPdf(url, resp)
    THEN Extraction(<<>>, <<>>, TRUE, TRUE, <<"pdf_skipped">>)
    ELSE LET parts == PartsOf(resp.elements, {"h1", "h2", "h3", "p", "li"}, 25)
             text == JoinWith(parts, <<"\n\n">>)
         IN  IF CharLen[text] <= 250
             THEN Extraction(text, HtmlMeta(resp), FALSE, TRUE, <<"too_small">>)
             ELSE Extraction(text, HtmlMeta(resp), FALSE, FALSE, None)

\* ingest_service.scraper.extract_article
ScraperExtractArticle(url, resp) ==
    IF resp.kind = "error"
    THEN Extraction(<<>>, <<>>, FALSE, TRUE, <<"request_failed", ":", "timeout">>)
    ELSE IF LooksPdf(url, resp)
    THEN Extraction(<<>>, <<>>, TRUE, TRUE, <<"pdf_skipped">>)
    ELSE LET parts == PartsOf(resp.elements, {"h1", "h2", "h3", "p", "li"}, 25)
             text == JoinWith(parts, <<"\n\n">>)
         IN  IF CharLen[text] < 250
             THEN Extraction(text, HtmlMeta(resp), FALSE, TRUE, <<"too_small">>)
             ELSE Extraction(text, HtmlMeta(resp), FALSE, FALSE, None)

\* main.find("h1") of what is left after decompose, cleaned; <<>> if none
FirstH1(elements) ==
    LET hs == { i \in 1..Len(elements) : elements[i].tag = "h1" }
    IN  IF hs = {} THEN <<>>
        ELSE CleanText(elements[CHOOSE i \in hs : \A j \in hs : i <= j].text)

ExtractorSelectors ==
    {"h1", "h2", "h3", "p", "li", "div.field__item", "div.field", "div.content",
     "section"}

\* extractor_wales.extract_metadata_and_text (= extract_article)
ExtractorExtractArticle(url, resp) ==
    IF resp.kind = "error"
    THEN Extraction(<<>>, <<>>, FALSE, TRUE, <<"request_failed", ":", "timeout">>)
    ELSE IF LooksPdf(url, resp)
    THEN IF resp.corrupt
         THEN Extraction(<<>>, <<>>, TRUE, TRUE, <<"pdf_failed">>)
         ELSE LET pages == [i \in 1..Len(resp.pdf) |-> CleanText(resp.pdf[i])]
                  text == CleanText(JoinWith(pages, <<"\n">>))
              IN  IF text = <<>>
                  THEN Extraction(<<>>, <<>>, TRUE, TRUE, <<"pdf_empty">>)
                  ELSE Extraction(text, <<>>, TRUE, FALSE, None)
    ELSE LET parts == PartsOf(resp.elements, ExtractorSelectors, 20)
             text == JoinWith(parts, <<"\n\n">>)
             h1 == FirstH1(resp.elements)
         IN  IF CharLen[text] < 80
             THEN IF h1 # <<>> /\ CharLen[h1] >= 8
                  THEN Extraction(text, HtmlMeta(resp), FALSE, FALSE, None)
                  ELSE Extraction(text, HtmlMeta(resp), FALSE, TRUE,
                                  <<"html_empty_or_too_small">>)
             ELSE Extraction(text, HtmlMeta(resp), FALSE, FALSE, None)

-----------------------------------------------------------------------------
(* topics.py *)

TOPIC_TAXONOMY ==
    << "Arts, culture and sport", "Building and planning",
       "Business, economy and innovation", "Children and families",
       "Communities and regeneration", "Coronavirus (COVID-19)", "Digital",
       "Education and skills", "Employment and work",
       "Environment and climate change", "Equality and human rights",
       "Farming and countryside", "Health and social care", "Housing",
       "International and EU", "Justice and law", "Marine and fisheries",
       "Public sector", "Transport", "Welsh language" >>

W1(w) == <<w>>
W2(a, b) == <<a, " ", b>>

\* TOPIC_KEYWORDS: topic -> keywords, each keyword a string of words
TOPIC_KEYWORDS ==
    [ t \in { TOPIC_TAXONOMY[i] : i \in 1..Len(TOPIC_TAXONOMY) } |->
        CASE t = "Health and social care" ->
                { W1("nhs"), W1("health"), W1("care"), W1("hospital"), W1("dental"),
                  W1("cancer"), W2("mental", "health") }
          [] t = "Education and skills" ->
                { W1("school"), W1("education"), W1("learner"), W1("curriculum"),
                  W1("inset"), W1("teacher"), W1("university") }
          [] t = "Transport" ->
                { W1("transport"), W1("rail"), W1("bus"), W1("road"), W1("traffic"),
                  W1("20mph"), W2("active", "travel") }
          [] t = "Environment and climate change" ->
                { W1("climate"), W1("flood"), W1("carbon"), W1("emissions"),
                  W1("energy"), W2("net", "zero"), W1("environment") }
          [] t = "Business, economy and innovation" ->
                { W1("economy"), W1("business"), W1("investment"), W1("innovation"),
                  W1("trade"), W1("growth") }
          [] t = "Housing" ->
                { W1("housing"), W1("rent"), W1("landlord"), W1("homeless"),
                  W1("property") }
          [] t = "Justice and law" ->
                { W1("law"), W1("legal"), W1("justice"), W1("tribunal"),
                  W1("statutory"), W1("legislation"), W1("order") }
          [] t = "Public sector" ->
                { W1("public"), W1("government"), W2("local", "authority"),
                  W1("council"), W1("procurement") }
          [] t = "Children and families" ->
                { W1("child"), W1("children"), W1("family"), W1("safeguarding"),
                  W2("looked", "after") }
          [] t = "Coronavirus (COVID-19)" ->
                { W1("covid"), W1("coronavirus"), W1("pandemic") }
          [] t = "Welsh language" ->
                { W2("welsh", "language"), W1("cymraeg"), <<"welsh", "-", "speaking">> }
          [] t = "Digital" ->
                { W1("digital"), W1("data"), W1("online"), W1("ai"), W1("technology") }
          [] t = "Employment and work" ->
                { W1("employment"), W1("work"), W1("jobs"), W2("labour", "market"),
                  W1("wages") }
          [] OTHER -> {} ]

\* number of the keywords of a topic that re.search finds at word boundaries
\* in the lower-cased text t: one point per keyword, however often it occurs
Hits(t, topic) ==
    Cardinality({ kw \in TOPIC_KEYWORDS[topic] : Contains(t, kw) })

RECURSIVE ScoreItems(_, _)
ScoreItems(t, topics) ==
    IF topics = <<>> THEN <<>>
    ELSE << <<Head(topics), Hits(t, Head(topics))>> >>
             \o ScoreItems(t, Tail(topics))

\* topics._score, as scores.items(): the pairs (topic, score) in taxonomy
\* order, the insertion order of the dict
Score(text) == ScoreItems(Lower(text), TOPIC_TAXONOMY)

RECURSIVE InsertRankedBeforeTies(_, _)
\* a sort that is not stable: x placed in front of the pairs of its own score
InsertRankedBeforeTies(sorted, x) ==
    IF sorted = <<>> THEN <<x>>
    ELSE IF Head(sorted)[2] > x[2]
         THEN <<Head(sorted)>> \o InsertRankedBeforeTies(Tail(sorted), x)
         ELSE <<x>> \o sorted

RECURSIVE InsertRanked(_, _)
\* x placed behind every pair whose score is at least its own
InsertRanked(sorted, x) ==
    IF sorted = <<>> THEN <<x>>
    ELSE IF Head(sorted)[2] >= x[2]
         THEN <<Head(sorted)>> \o InsertRanked(Tail(sorted), x)
         ELSE <<x>> \o sorted

RECURSIVE RankedFrom(_, _)
RankedFrom(sorted, items) ==
    IF items = <<>> THEN sorted
    ELSE RankedFrom(InsertRanked(sorted, Head(items)), Tail(items))

\* sorted(scores.items(), key=score, reverse=True): stable, so equal scores
\* stay in taxonomy order
Ranked(items) == RankedFrom(<<>>, items)

RECURSIVE Chosen(_)
\* [t for t, s in ranked if s > 0]
Chosen(ranked) ==
    IF ranked = <<>> THEN <<>>
    ELSE (IF Head(ranked)[2] > 0 THEN <<Head(ranked)[1]>> ELSE <<>>)
             \o Chosen(Tail(ranked))

\* topics.guess_topics
GuessTopics(title, body, max_topics) ==
    LET chosen == Chosen(Ranked(Score(title \o <<" ">> \o body)))
    IN  SubSeq(chosen, 1, IF Len(chosen) < max_topics THEN Len(chosen)
                          ELSE max_topics)

\* ", ".join(topics) if topics else None
TopicsStr(topics) ==
    IF topics = <<>> THEN None
    ELSE JoinWith([i \in 1..Len(topics) |-> <<topics[i]>>], <<", ">>)

-----------------------------------------------------------------------------
(* database.py: table articles *)

\* columns written by the pipeline, and those owned by the reader / the AI
ContentColumns ==
    {"category", "title", "url", "published", "doc_type", "topics", "organisations",
     "status", "image_url", "raw_text", "is_pdf"}

ReaderColumns ==
    {"summary", "context", "translation", "translation_lang", "saved", "notes",
     "summary_feedback"}

\* the column values of a fresh row that INSERT does not name (init_db)
ColumnDefaults ==
    [summary |-> None, context |-> None, translation |-> None,
     translation_lang |-> None, saved |-> FALSE, notes |-> None,
     summary_feedback |-> None]

\* position (= id) of the row with that url, 0 if there is none
RowOf(tbl, url) ==
    IF \E i \in 1..Len(tbl) : tbl[i].url = url
    THEN CHOOSE i \in 1..Len(tbl) : tbl[i].url = url
    ELSE 0

Restrict(f, keys) == [k \in keys |-> f[k]]

\* a statement that sets updated_at = NOW() on row id (trigger
\* trg_articles_updated_at), or inserts it with created_at = updated_at = NOW()
Touch(rec, id) ==
    <<id>> \o SeqFilter(rec, { j \in 1..Len(rec) + 1 : j # id })

\* a table with no UNIQUE(url) / ON CONFLICT: every upsert adds a row
UpsertAlwaysInserts(tbl, a) == Append(tbl, a @@ ColumnDefaults)

\* an insert that is made in two writes and seen after the first: the new
\* row is there without its text
UpsertWithoutText(tbl, a) ==
    LET i == RowOf(tbl, a.url)
    IN  IF i = 0 THEN Append(tbl, [a EXCEPT !.raw_text = None] @@ ColumnDefaults)
        ELSE [tbl EXCEPT ![i] =
                [c \in DOMAIN @ |->
                    IF c \in ContentColumns \ {"url"} THEN a[c] ELSE @[c]]]

\* INSERT OR REPLACE semantics: the conflicting row is rewritten whole
UpsertReplacesRow(tbl, a) ==
    LET i == RowOf(tbl, a.url)
    IN  IF i = 0 THEN Append(tbl, a @@ ColumnDefaults)
        ELSE [tbl EXCEPT ![i] = a @@ ColumnDefaults]

\* upsert_article: INSERT ... ON CONFLICT (url) DO UPDATE SET <content columns>
UpsertTable(tbl, a) ==
    LET i == RowOf(tbl, a.url)
    IN  IF i = 0 THEN Append(tbl, a @@ ColumnDefaults)
        ELSE [tbl EXCEPT ![i] =
                [c \in DOMAIN @ |->
                    IF c \in ContentColumns \ {"url"} THEN a[c] ELSE @[c]]]

\* the row upsert_article wrote: the new one, or the conflicting one
UpsertedId(tbl, a) == IF RowOf(tbl, a.url) = 0 THEN Len(tbl) + 1 ELSE RowOf(tbl, a.url)

\* toggle_save: UPDATE ... SET saved = NOT saved WHERE id; a missing id
\* updates nothing (and fetchone()["saved"] raises)
ToggleTable(tbl, id) ==
    IF id \in 1..Len(tbl) THEN [tbl EXCEPT ![id].saved = ~@] ELSE tbl

UPDATE_TEXT_ALLOWED == {"summary", "context", "translation", "notes", "summary_feedback"}

\* update_text with no `if field not in allowed` test
UpdateTextTakesAnyField(field) == FALSE

\* update_text: raises on a field that is not allowed, before any statement
UpdateTextRaises(field) == field \notin UPDATE_TEXT_ALLOWED

\* update_text with one UPDATE for every field: translation_lang is left
\* alone
UpdateTextOneColumn(tbl, id, field, value, translation_lang) ==
    IF UpdateTextRaises(field) \/ id \notin 1..Len(tbl) THEN tbl
    ELSE [tbl EXCEPT ![id][field] = value]

\* update_text: UPDATE articles SET translation, translation_lang WHERE id,
\* or SET <field> WHERE id; a missing id updates nothing
UpdateTextTable(tbl, id, field, value, translation_lang) ==
    IF UpdateTextRaises(field) \/ id \notin 1..Len(tbl) THEN tbl
    ELSE IF field = "translation"
    THEN [tbl EXCEPT ![id].translation = value,
                     ![id].translation_lang = translation_lang]
    ELSE [tbl EXCEPT ![id][field] = value]

\* x ILIKE '%pat%'; NULL ILIKE anything is not true
ILike(x, pat) == x # None /\ Contains(Lower(x), Lower(pat))

\* COALESCE(x, '')
Coalesce(x) == IF x = None THEN <<>> ELSE x

\* the model's published values in ascending (text) order
PublishedOrder == << <<"2024-01-10">>, <<"2024-05-01">> >>

PublishedRank(p) ==
    IF p = None THEN 0 ELSE CHOOSE r \in 1..Len(PublishedOrder) : PublishedOrder[r] = p

\* the WHERE clause get_articles builds: every condition is AND-ed
RowMatches(row, q) ==
    /\ (q.category # None /\ q.category # <<>>) => row.category = q.category
    /\ q.saved_only => row.saved
    /\ (q.kw # None /\ q.kw # <<>>) => ILike(row.title, q.kw)
    /\ \A i \in 1..Len(q.topics) : ILike(Coalesce(row.topics), q.topics[i])
    /\ \A i \in 1..Len(q.orgs) : ILike(Coalesce(row.organisations), q.orgs[i])

\* get_articles: ids of the matching rows, ORDER BY published DESC NULLS
\* LAST, updated_at DESC, LIMIT limit
GetArticles(tbl, rec, q) ==
    LET hits == { i \in 1..Len(tbl) : RowMatches(tbl[i], q) }
        At(id) == CHOOSE r \in 1..Len(rec) : rec[r] = id
        Before(i, j) ==
            \/ PublishedRank(tbl[i].published) > PublishedRank(tbl[j].published)
            \/ /\ PublishedRank(tbl[i].published) = PublishedRank(tbl[j].published)
               /\ At(i) < At(j)
        Pos(i) == 1 + Cardinality({ j \in hits : Before(j, i) })
        sorted == [r \in 1..Cardinality(hits) |-> CHOOSE i \in hits : Pos(i) = r]
    IN  SubSeq(sorted, 1, IF q.limit < Len(sorted) THEN q.limit ELSE Len(sorted))

-----------------------------------------------------------------------------
(* Calls on the table made by the reader's application and by the pipeline *)

UrlA == UrlJoin(BASE, HrefA)
UrlB == UrlJoin(BASE, HrefB)

WelshGovernment == <<"Welsh", " ", "Government">>

\* the dict upsert_article takes
ArticleDict(category, title, url, published, topics, organisations, text, is_pdf) ==
    [category |-> category, title |-> title, url |-> url, published |-> published,
     doc_type |-> None, topics |-> topics, organisations |-> organisations,
     status |-> None, image_url |-> None, raw_text |-> text, is_pdf |-> is_pdf]

NoOp == [op |-> "none", hit |-> FALSE, raised |-> FALSE]
NoQuery == [asked |-> FALSE, q |-> <<>>, result |-> <<>>]

\* reader edits made in one behaviour
MaxEdits == 3

\* upsert_article(a)
UpsertArticle(a) ==
    /\ store' = UpsertTable(store, a)
    /\ recency' = Touch(recency, UpsertedId(store, a))
    /\ lastOp' = [op |-> "upsert", hit |-> RowOf(store, a.url) # 0, raised |-> FALSE]
    /\ queried' = NoQuery
    /\ UNCHANGED <<siteVars, collected, article, called, service, edits, run, ingestDone>>

\* toggle_save(article_id)
ToggleSave(id) ==
    /\ edits < MaxEdits
    /\ edits' = edits + 1
    /\ store' = ToggleTable(store, id)
    /\ recency' = IF id \in 1..Len(store) THEN Touch(recency, id) ELSE recency
    /\ lastOp' = [op |-> "toggle_save", hit |-> id \in 1..Len(store),
                  raised |-> id \notin 1..Len(store)]
    /\ queried' = NoQuery
    /\ UNCHANGED <<siteVars, collected, article, called, service, run, ingestDone>>

\* update_text(article_id, field, value, translation_lang)
UpdateText(id, field, value, translation_lang) ==
    /\ edits < MaxEdits
    /\ edits' = edits + 1
    /\ store' = UpdateTextTable(store, id, field, value, translation_lang)
    /\ recency' = IF ~UpdateTextRaises(field) /\ id \in 1..Len(store)
                  THEN Touch(recency, id) ELSE recency
    /\ lastOp' = [op |-> "update_text",
                  hit |-> ~UpdateTextRaises(field) /\ id \in 1..Len(store),
                  raised |-> UpdateTextRaises(field),
                  id |-> id, field |-> field, value |-> value,
                  translation_lang |-> translation_lang]
    /\ queried' = NoQuery
    /\ UNCHANGED <<siteVars, collected, article, called, service, run, ingestDone>>

\* get_articles(category, kw, topics, orgs, saved_only, limit)
CallGetArticles(q) ==
    /\ queried' = [asked |-> TRUE, q |-> q, result |-> GetArticles(store, recency, q)]
    /\ UNCHANGED <<siteVars, collected, article, called, service, tableVars, edits, run, ingestDone>>

InitTable ==
    /\ store = <<>>
    /\ recency = <<>>
    /\ lastOp = NoOp
    /\ edits = 0
    /\ queried = NoQuery

-----------------------------------------------------------------------------
(* The orchestrators: run_ingest_once and run_pipeline *)

\* "sched": the background_scheduler thread; "req": a POST /run request;
\* "job": python pipeline.py
IngestRunners == {"sched", "req"}
Runners == IngestRunners \cup {"job"}

NoExtraction == Extraction(<<>>, <<>>, FALSE, FALSE, None)

\* pc: idle (sched: in time.sleep) -> start -> (extract -> decide)* -> done,
\* or start -> caught / failed when the call raises; raisedBefore is history
Idle(raisedBefore) ==
    [pc |-> "idle", links |-> <<>>, i |-> 0, kept |-> 0, skipped |-> 0,
     ext |-> NoExtraction, wrote |-> 0, passed |-> 0, raisedBefore |-> raisedBefore]

\* x or default
OrElse(x, default) == IF x = None \/ x = <<>> THEN default ELSE x

\* s.strip()
RECURSIVE LStrip(_)
LStrip(s) == IF s # <<>> /\ Head(s) \in WhiteSpace THEN LStrip(Tail(s)) ELSE s

RECURSIVE Strip(_)
Strip(s) ==
    IF s # <<>> /\ s[Len(s)] \in WhiteSpace
    THEN Strip(SubSeq(s, 1, Len(s) - 1))
    ELSE LStrip(s)

\* the dict run_ingest_once builds for upsert_article
IngestRecord(item, ext) ==
    ArticleDict(item.category, item.title, item.url,
                MetaGet(ext.meta, "published"),
                MetaGet(ext.meta, "topics"),
                OrElse(MetaGet(ext.meta, "organisations"), WelshGovernment),
                ext.text, ext.is_pdf)

\* run_ingest_once skips nothing at all
IngestKeepsJunk(ext) == FALSE

\* run_ingest_once: `if is_junk: skipped += 1; continue`
IngestSkips(ext) == ext.is_junk

HardJunk == { <<"html_empty_or_too_small">>, <<"pdf_empty">>, <<"pdf_failed">> }

\* run_pipeline without its `if not text` test
PipelineSkipsHardJunkOnly(ext) == ext.is_junk /\ ext.reason \in HardJunk

\* run_pipeline: skipped on a hard junk reason, or on text that is empty
\* once stripped
PipelineSkips(ext) ==
    \/ ext.is_junk /\ ext.reason \in HardJunk
    \/ Strip(OrElse(ext.text, <<>>)) = <<>>

\* the keyword arguments run_pipeline hands to insert_article
PipelineRecord(item, ext) ==
    LET title == OrElse(item.title, <<>>)
        text == Strip(OrElse(ext.text, <<>>))
    IN  ArticleDict(OrElse(item.category, <<>>), title, OrElse(item.url, <<>>),
                    MetaGet(ext.meta, "published"),
                    TopicsStr(GuessTopics(title, text, 3)),
                    OrElse(MetaGet(ext.meta, "organisations"), WelshGovernment),
                    text, ext.is_pdf)

\* database.insert_article, which pipeline.py imports: the keyed upsert
InsertArticleTable(tbl, a) == UpsertTable(tbl, a)

\* a counter shared by every invocation instead of the local `kept`
SharedKept(p) == run["sched"].kept + run["req"].kept + 1

\* kept += 1 on the invocation's own local
KeptAfterPersist(p) == run[p].kept + 1

\* no try/except around run_ingest_once: the exception ends the thread
NothingCatches(p) == "failed"

\* where an exception out of the call lands: background_scheduler catches
\* it and goes on to sleep; a request or the job is ended by it
PcAfterRaise(p) == IF p = "sched" THEN "caught" ELSE "failed"

\* the call is entered: a request arrives, the sleep is over, the job starts
Begin(p) ==
    /\ run[p].pc = "idle"
    /\ run' = [run EXCEPT ![p].pc = "start"]
    /\ UNCHANGED <<siteVars, collected, article, called, service, tableVars, edits, queried, ingestDone>>

\* database.get_db_url, reached through init_db and get_conn: RuntimeError
\* when DATABASE_URL is not set
GetDbUrlRaises == ~service.configured

\* init_db() and then collect(): the exception of the first, or what the
\* second returns
InitDbThen(got) == IF GetDbUrlRaises THEN Raised ELSE got

\* after collect_links: into the loop, out of it at once, or the exception
AfterCollect(p, got) ==
    IF got.raised
    THEN [run[p] EXCEPT !.pc = PcAfterRaise(p), !.raisedBefore = TRUE]
    ELSE [run[p] EXCEPT !.pc = IF got.links = <<>> THEN "done" ELSE "extract",
                        !.links = got.links, !.i = 1]

\* run_ingest_once: init_db(); links = collect_links(); kept = skipped = 0
IngestCollect(p) ==
    /\ run[p].pc = "start"
    /\ \E got \in {InitDbThen(ScraperCollectLinks(listing, failing))} :
          /\ run' = [run EXCEPT ![p] = AfterCollect(p, got)]
          /\ ingestDone' = (ingestDone \/ (~got.raised /\ got.links = <<>>))
    /\ UNCHANGED <<siteVars, collected, article, called, service, tableVars, edits, queried>>

\* text, meta, is_pdf, is_junk, reason = extract_article(url)
IngestExtract(p) ==
    /\ run[p].pc = "extract"
    /\ LET url == run[p].links[run[p].i].url
       IN  run' = [run EXCEPT ![p].pc = "decide",
                              ![p].ext = ScraperExtractArticle(url, article[url])]
    /\ UNCHANGED <<siteVars, collected, article, called, service, tableVars, edits, queried, ingestDone>>

\* a loop that ends one item early
NextPcBeforeLast(p) == IF run[p].i >= Len(run[p].links) - 1 THEN "done" ELSE "extract"

\* the loop goes to its next item, or ends
NextPc(p) == IF run[p].i = Len(run[p].links) THEN "done" ELSE "extract"

\* the rest of one loop turn of run_ingest_once
IngestDecide(p) ==
    /\ run[p].pc = "decide"
    /\ LET item == run[p].links[run[p].i]
           ext == run[p].ext
           a == IngestRecord(item, ext)
       IN  IF IngestSkips(ext)
           THEN /\ run' = [run EXCEPT ![p].pc = NextPc(p), ![p].i = @ + 1,
                                      ![p].ext = NoExtraction,
                                      ![p].skipped = @ + 1, ![p].passed = @ + 1]
                /\ UNCHANGED tableVars
           ELSE /\ store' = UpsertTable(store, a)
                /\ recency' = Touch(recency, UpsertedId(store, a))
                /\ lastOp' = [op |-> "upsert", hit |-> RowOf(store, a.url) # 0,
                              raised |-> FALSE]
                /\ run' = [run EXCEPT ![p].pc = NextPc(p), ![p].i = @ + 1,
                                      ![p].ext = NoExtraction,
                                      ![p].kept = KeptAfterPersist(p),
                                      ![p].wrote = @ + 1]
    /\ ingestDone' = (ingestDone \/ NextPc(p) = "done")
    /\ UNCHANGED <<siteVars, collected, article, called, service, edits, queried>>

\* run_pipeline: init_db(); links = collect_links(); kept, junked = 0, 0
PipelineCollect ==
    /\ run["job"].pc = "start"
    /\ \E got \in {InitDbThen(ExtractorCollectLinks(listing, failing))} :
          run' = [run EXCEPT !["job"] = AfterCollect("job", got)]
    /\ UNCHANGED <<siteVars, collected, article, called, service, tableVars, edits, queried, ingestDone>>

PipelineExtract ==
    /\ run["job"].pc = "extract"
    /\ LET url == run["job"].links[run["job"].i].url
       IN  run' = [run EXCEPT !["job"].pc = "decide",
                              !["job"].ext = ExtractorExtractArticle(url, article[url])]
    /\ UNCHANGED <<siteVars, collected, article, called, service, tableVars, edits, queried, ingestDone>>

\* the rest of one loop turn of run_pipeline
PipelineDecide ==
    /\ run["job"].pc = "decide"
    /\ LET item == run["job"].links[run["job"].i]
           ext == run["job"].ext
           a == PipelineRecord(item, ext)
       IN  IF PipelineSkips(ext)
           THEN /\ run' = [run EXCEPT !["job"].pc = NextPc("job"), !["job"].i = @ + 1,
                                      !["job"].ext = NoExtraction,
                                      !["job"].skipped = @ + 1, !["job"].passed = @ + 1]
                /\ UNCHANGED tableVars
           ELSE /\ store' = InsertArticleTable(store, a)
                /\ recency' = Touch(recency, UpsertedId(store, a))
                /\ lastOp' = [op |-> "upsert", hit |-> RowOf(store, a.url) # 0,
                              raised |-> FALSE]
                /\ run' = [run EXCEPT !["job"].pc = NextPc("job"), !["job"].i = @ + 1,
                                      !["job"].ext = NoExtraction,
                                      !["job"].kept = @ + 1, !["job"].wrote = @ + 1]
    /\ UNCHANGED <<siteVars, collected, article, called, service, edits, queried, ingestDone>>

\* the call is over: the summary has been returned (the response sent, the
\* counts printed), or the exception was caught and printed, and the
\* scheduler sleeps; an uncaught exception ends a request or the job, which
\* can be made again, but not a thread
Rest(p) ==
    /\ \/ run[p].pc \in {"done", "caught"}
       \/ run[p].pc = "failed" /\ p # "sched"
    /\ run' = [run EXCEPT ![p] = Idle(run[p].raisedBefore)]
    /\ UNCHANGED <<siteVars, collected, article, called, service, tableVars, edits, queried, ingestDone>>

RunFailPages == { <<1, 0>>, <<4, 1>> }

\* a listing page stops answering (timeout, connection error, 5xx)
PageDown(k) ==
    /\ failing = NoPage
    /\ failing' = k
    /\ UNCHANGED <<listing, collected, article, called, service, tableVars, edits, queried, run, ingestDone>>

\* and answers again
PageUp ==
    /\ failing # NoPage
    /\ failing' = NoPage
    /\ UNCHANGED <<listing, collected, article, called, service, tableVars, edits, queried, run, ingestDone>>

RunSites ==
    { EmptySite,
      [EmptySite EXCEPT ![<<1, 0>>] = <<AnchorA1, AnchorB1>>],
      [EmptySite EXCEPT ![<<1, 0>>] = <<AnchorA1>>,
                        ![<<3, 1>>] = <<AnchorB1, AnchorA2>>] }

\* what the article URLs answer: /a an HTML page, /b.pdf a PDF document
ArticleAnswers ==
    { [u \in {UrlA, UrlB} |-> IF u = UrlA THEN ra ELSE rb] :
        ra \in {RespError, PageEmpty, PageH1Only, PageShort, PageLong,
                PageTransport, PageNotFound},
        rb \in {RespError, PdfOk, PdfEmpty, PdfCorrupt} }

InitRuns ==
    /\ listing \in RunSites
    /\ failing = NoPage
    /\ collected = NotCollected
    /\ article \in ArticleAnswers
    /\ InitTable
    /\ run = [p \in Runners |-> Idle(FALSE)]
    /\ ingestDone = FALSE
    /\ called = NoCall
    /\ service = Configured

Site == \/ \E k \in RunFailPages : PageDown(k)
        \/ PageUp

Ingest(p) ==
    \/ Begin(p)
    \/ IngestCollect(p)
    \/ IngestExtract(p)
    \/ IngestDecide(p)
    \/ Rest(p)

Pipeline ==
    \/ Begin("job")
    \/ PipelineCollect
    \/ PipelineExtract
    \/ PipelineDecide
    \/ Rest("job")

-----------------------------------------------------------------------------
(* SpecStore: the table under upserts and reader edits *)

StoreArticles ==
    { ArticleDict(<<"Announcements">>, TitleBudget, UrlA, Date1, None,
                  WelshGovernment, Para(3), FALSE),
      ArticleDict(<<"Publications">>, TitleHousing, UrlA, None, TopicsStr(<<"Housing">>),
                  WelshGovernment, TextHealth, FALSE),
      ArticleDict(<<"Publications">>, TitleBudget, UrlB, None, None,
                  WelshGovernment, Para(3), TRUE) }

FieldInputs == UPDATE_TEXT_ALLOWED \cup {"saved", "title"}
ValueInputs == { <<"v1">> }
LangInputs == { None, <<"Hindi">> }

InitStore ==
    /\ InitTable
    /\ listing = EmptySite
    /\ failing = NoPage
    /\ collected = NotCollected
    /\ article = <<>>
    /\ run = [p \in Runners |-> Idle(FALSE)]
    /\ ingestDone = FALSE
    /\ called = NoCall
    /\ service = Configured

NextStore ==
    \/ \E a \in StoreArticles : UpsertArticle(a)
    \/ \E id \in 1..(Len(store) + 1) : ToggleSave(id)
    \/ \E id \in 1..(Len(store) + 1), f \in FieldInputs,
          v \in ValueInputs, l \in LangInputs : UpdateText(id, f, v, l)

SpecStore == InitStore /\ [][NextStore]_vars

-----------------------------------------------------------------------------
(* SpecQuery: the table under upserts and saves, read by get_articles *)

TopicsHT == TopicsStr(<<"Housing", "Transport">>)

QueryArticles ==
    { ArticleDict(<<"Announcements">>, TitleBudget, UrlA, Date1, TopicsHT,
                  WelshGovernment, Para(3), FALSE),
      ArticleDict(<<"Publications">>, TitleHousing, UrlA, None, None,
                  WelshGovernment, TextHealth, FALSE),
      ArticleDict(<<"Publications">>, TitleBudget, UrlB, <<"2024-01-10">>,
                  TopicsStr(<<"Housing">>), <<"NHS", " ", "Wales">>, Para(3), TRUE) }

Query(category, kw, topics, orgs, saved_only, limit) ==
    [category |-> category, kw |-> kw, topics |-> topics, orgs |-> orgs,
     saved_only |-> saved_only, limit |-> limit]

Queries ==
    { Query(None, None, <<>>, <<>>, FALSE, 200),
      Query(None, None, <<>>, <<>>, FALSE, 1),
      Query(<<"Announcements">>, None, <<>>, <<>>, FALSE, 200),
      Query(None, <<"budget">>, <<>>, <<>>, TRUE, 200),
      Query(None, None, << <<"housing">> >>, <<>>, FALSE, 200),
      Query(None, None, << <<"Housing">>, <<"Transport">> >>, <<>>, FALSE, 200),
      Query(None, None, << <<"Housing">>, <<"Digital">> >>, <<>>, FALSE, 200),
      Query(None, None, <<>>, << <<"welsh">> >>, FALSE, 200),
      Query(None, None, <<>>, << <<"Welsh">>, <<"NHS">> >>, FALSE, 200) }

NextQuery ==
    \/ \E a \in QueryArticles : UpsertArticle(a)
    \/ \E id \in 1..(Len(store) + 1) : ToggleSave(id)
    \/ \E q \in Queries : CallGetArticles(q)

SpecQuery == InitStore /\ [][NextQuery]_vars

-----------------------------------------------------------------------------
(* SpecCollect: the site is filled, then one collector is called on it *)

InitCollect ==
    /\ listing = EmptySite
    /\ failing = NoPage
    /\ collected = NotCollected
    /\ InitTable
    /\ article = <<>>
    /\ run = [p \in Runners |-> Idle(FALSE)]
    /\ ingestDone = FALSE
    /\ called = NoCall
    /\ service = Configured

otherVars ==
    <<article, store, recency, lastOp, edits, queried, run, ingestDone, called,
      service>>

\* the site publishes one more anchor on a listing page
SitePost(k, a) ==
    /\ collected = NotCollected
    /\ CountAnchors(AllPages(1), listing) < MaxPosts
    /\ listing' = [listing EXCEPT ![k] = Append(@, a)]
    /\ UNCHANGED <<failing, collected, otherVars>>

\* one listing page becomes unreachable (timeout, connection error, 5xx)
SiteFail(k) ==
    /\ collected = NotCollected
    /\ failing = NoPage
    /\ failing' = k
    /\ UNCHANGED <<listing, collected, otherVars>>

CallScraperCollect ==
    /\ collected = NotCollected
    /\ collected' = [fn |-> "scraper"] @@ ScraperCollectLinks(listing, failing)
    /\ UNCHANGED <<siteVars, otherVars>>

CallExtractorCollect ==
    /\ collected = NotCollected
    /\ collected' = [fn |-> "extractor"] @@ ExtractorCollectLinks(listing, failing)
    /\ UNCHANGED <<siteVars, otherVars>>

CallFetchWalesLinks ==
    /\ collected = NotCollected
    /\ collected' = [fn |-> "collector"] @@ FetchWalesLinks(listing, failing)
    /\ UNCHANGED <<siteVars, otherVars>>

NextCollect ==
    \/ \E k \in PageKeys, a \in Anchors : SitePost(k, a)
    \/ \E k \in PageKeys : SiteFail(k)
    \/ CallScraperCollect
    \/ CallExtractorCollect
    \/ CallFetchWalesLinks

SpecCollect == InitCollect /\ [][NextCollect]_vars

-----------------------------------------------------------------------------
(* Spec: a POST /run request and the pipeline job against one site and one
   table.  SpecService: the scheduler thread and a POST /run request in the
   ingest service.  FairSpec: the same, the scheduler thread always getting
   to run: its sleep ends and each of its fetches answers or times out. *)

NextRuns == Site \/ Ingest("req") \/ Pipeline

Spec == InitRuns /\ [][NextRuns]_vars

NextService == Site \/ Ingest("sched") \/ Ingest("req")

SpecService == InitRuns /\ [][NextService]_vars

FairSpec == SpecService /\ WF_vars(Ingest("sched"))

-----------------------------------------------------------------------------
(* SpecCrash: the service, its runs abandoned at any point *)

\* the process is stopped while a run_ingest_once call is under way: the
\* call's locals are lost. upsert_article is one statement in one
\* transaction, so a call stopped at its persist step has either committed
\* the upsert or written nothing
Abandon(p) ==
    /\ run[p].pc \in {"start", "extract", "decide"}
    /\ run' = [run EXCEPT ![p] = Idle(run[p].raisedBefore)]
    /\ \/ UNCHANGED tableVars
       \/ /\ run[p].pc = "decide"
          /\ ~IngestSkips(run[p].ext)
          /\ \E a \in { IngestRecord(run[p].links[run[p].i], run[p].ext) } :
                /\ store' = UpsertTable(store, a)
                /\ recency' = Touch(recency, UpsertedId(store, a))
                /\ lastOp' = [op |-> "upsert", hit |-> RowOf(store, a.url) # 0,
                              raised |-> FALSE]
    /\ UNCHANGED <<siteVars, collected, article, called, service, edits, queried,
                   ingestDone>>

NextCrash == NextService \/ \E p \in IngestRunners : Abandon(p)

SpecCrash == InitRuns /\ [][NextCrash]_vars

-----------------------------------------------------------------------------
(* SpecStartup: the service started with or without DATABASE_URL *)

\* GET /health: return {"ok": True}
Health ==
    /\ service' = [service EXCEPT !.health = "ok"]
    /\ UNCHANGED <<siteVars, collected, article, called, tableVars, edits, queried,
                   run, ingestDone>>

InitStartup ==
    /\ listing \in RunSites
    /\ failing = NoPage
    /\ collected = NotCollected
    /\ article \in ArticleAnswers
    /\ InitTable
    /\ run = [p \in Runners |-> Idle(FALSE)]
    /\ ingestDone = FALSE
    /\ called = NoCall
    /\ service \in { [configured |-> c, health |-> "none"] : c \in BOOLEAN }

NextStartup == NextService \/ Health

SpecStartup == InitStartup /\ [][NextStartup]_vars

-----------------------------------------------------------------------------
(* SpecTopics: one guess_topics call on a title and a body of a few words *)

\* words of a body
MaxWords == 3

\* largest max_topics asked for
MaxAsked == 4

BodyWords == {"nhs", "Housing", "rent", "rail", "health", "mental", "data"}

WordLists == UNION { [1..n -> BodyWords] : n \in 0..MaxWords }

\* the words with one blank between them
TextOf(ws) == JoinWith([i \in 1..Len(ws) |-> <<ws[i]>>], <<" ">>)

TopicTitles == { <<>>, TitleHousing }

notCalled ==
    <<siteVars, collected, article, tableVars, edits, queried, run, ingestDone,
      service>>

\* guess_topics(title, body, max_topics)
CallGuessTopics(title, body, max_topics) ==
    /\ called = NoCall
    /\ called' = [fn |-> "guess_topics", title |-> title, body |-> body,
                  max_topics |-> max_topics,
                  result |-> GuessTopics(title, body, max_topics)]
    /\ UNCHANGED notCalled

NextTopics ==
    \E title \in TopicTitles, ws \in WordLists, m \in 0..MaxAsked :
        CallGuessTopics(title, TextOf(ws), m)

SpecTopics == InitStore /\ [][NextTopics]_vars

-----------------------------------------------------------------------------
(* SpecExtract: one extract_article call on an HTML page of a few elements *)

\* elements of a page
MaxElements == 2

\* a run of 70 characters of prose, one piece
Prose70 ==
    "the council will publish the list of schemes at the end of the quarter"

\* paragraphs of 79, 80, 249 and 250 characters
Para79 == <<Prose70, " ", "measures">>
Para80 == <<Prose70, " ", "paragraph">>
Para249 == <<Prose120, " ", Prose120, " ", "measure">>
Para250 == <<Prose120, " ", Prose120, " ", "measures">>

PageElements ==
    { ElH1, [tag |-> "h1", text |-> <<"News">>], ElNav,
      [tag |-> "p", text |-> Para79], [tag |-> "p", text |-> Para80],
      [tag |-> "p", text |-> Para249], [tag |-> "p", text |-> Para250] }

ElementLists == UNION { [1..n -> PageElements] : n \in 0..MaxElements }

PageInputs == { HtmlPage(time, els) : time \in {None, Date1}, els \in ElementLists }

ExtractModules == {"scraper", "extractor_wales"}

\* extract_article(url) of one of the two modules, the request answered by resp
CallExtractArticle(module, url, resp) ==
    /\ called = NoCall
    /\ called' = [fn |-> "extract_article", module |-> module, url |-> url,
                  resp |-> resp,
                  result |-> IF module = "scraper"
                             THEN ScraperExtractArticle(url, resp)
                             ELSE ExtractorExtractArticle(url, resp)]
    /\ UNCHANGED notCalled

NextExtract ==
    \E module \in ExtractModules, resp \in PageInputs :
        CallExtractArticle(module, UrlA, resp)

SpecExtract == InitStore /\ [][NextExtract]_vars

-----------------------------------------------------------------------------
(* Properties *)

ReaderPart(row) == Restrict(row, ReaderColumns)

\* C1: an upsert_article call leaves summary, context, translation,
\* translation_lang, saved, notes and summary_feedback of every row that
\* existed before it (the row with its url among them) exactly as they were,
\* whatever they held and whatever content the upsert carries.
C1_UpsertKeepsReaderColumns ==
    [][ lastOp'.op = "upsert" =>
            \A i \in 1..Len(store) :
                /\ i <= Len(store')
                /\ ReaderPart(store'[i]) = ReaderPart(store[i]) ]_vars

\* C1 reached: a saved row with notes and a summary was re-ingested with
\* new content
C1_Witness ==
    /\ lastOp.op = "upsert" /\ lastOp.hit
    /\ \E i \in 1..Len(store) :
        /\ recency[1] = i
        /\ store[i].saved /\ store[i].notes # None /\ store[i].summary # None
        /\ store[i].title = TitleHousing

\* the candidates a scraper / extractor call saw, before its dedup
RawCandidates ==
    ItemsOfPages(AllPages(1), listing, failing,
                 collected.fn = "scraper", collected.fn = "extractor")

\* C3: every link-collection entry point returns one entry per URL, also
\* when a URL is listed on several pages or under several categories.
C3_OneEntryPerUrl ==
    (collected.fn # "none" /\ ~collected.raised) =>
        \A i, j \in 1..Len(collected.links) :
            collected.links[i].url = collected.links[j].url => i = j

\* C4: collect_links returns, for a URL seen several times, the category and
\* title of its first occurrence, the entries in first-seen order.
C4_FirstOccurrenceWins ==
    (collected.fn \in {"scraper", "extractor"} /\ ~collected.raised) =>
        collected.links = DedupKeepFirst(RawCandidates)

\* C5: collect_links does not raise when one listing page fails, and returns
\* the candidates of every page that was reachable.
C5_FailedPageIsSkipped ==
    (collected.fn \in {"scraper", "extractor"} /\ failing \in PageKeys) =>
        /\ ~collected.raised
        /\ \A n \in 1..Len(RawCandidates) :
              \E i \in 1..Len(collected.links) :
                  collected.links[i].url = RawCandidates[n].url

\* some requested value is a case-insensitive substring of the column
AnyILike(x, wanted) ==
    wanted # <<>> => \E i \in 1..Len(wanted) : ILike(Coalesce(x), wanted[i])

\* C10: get_articles with several topics (organisations) returns every
\* article that passes the other filters and has ANY requested value as a
\* case-insensitive substring of its topics (organisations) column.
C10_AnyRequestedValueMatches ==
    (queried.asked /\ Len(queried.result) < queried.q.limit) =>
        \A i \in 1..Len(store) :
            ( /\ RowMatches(store[i], [queried.q EXCEPT !.topics = <<>>, !.orgs = <<>>])
              /\ AnyILike(store[i].topics, queried.q.topics)
              /\ AnyILike(store[i].organisations, queried.q.orgs) )
            => \E r \in 1..Len(queried.result) : queried.result[r] = i

\* no two rows of the table share a url (the UNIQUE constraint on url)
UrlsUnique(tbl) ==
    \A i, j \in 1..Len(tbl) : tbl[i].url = tbl[j].url => i = j

\* C2: once one run_ingest_once call has returned against a source that
\* keeps its listing and its articles, every later step of any run leaves the
\* number of rows as it was, and after every step of every run no two rows
\* share a url.
C2_RerunKeepsRowCount ==
    [][ /\ ingestDone => Len(store') = Len(store)
        /\ UrlsUnique(store') ]_vars

\* C2 reached: two run_ingest_once calls have both returned having persisted
\* the same link, the second write hit the row of the first, one row stands
C2_Witness ==
    /\ ingestDone /\ lastOp.op = "upsert" /\ lastOp.hit
    /\ \A p \in IngestRunners : run[p].pc = "done" /\ run[p].kept = 1
    /\ Len(store) = 1

\* the url of the link a runner is at
LinkUrl(p) == run[p].links[run[p].i].url

RequestFailed(ext) ==
    ext.is_junk /\ StartsWith(ext.reason, <<"request_failed", ":">>)

\* C6: when the request for a link's article fails, extract_article of either
\* module returns is_junk with a reason starting "request_failed:" and does
\* not raise; run_ingest_once and run_pipeline then add one to skipped, leave
\* kept and the table alone, and move to the next link or, after the last
\* one, to their end.
C6_RequestFailureIsSkipped ==
    [][ \A p \in {"req", "job"} :
          /\ ( /\ run[p].pc = "extract" /\ run'[p] # run[p]
               /\ article[LinkUrl(p)].kind = "error" )
             => /\ run'[p].pc = "decide"
                /\ RequestFailed(run'[p].ext)
          /\ ( /\ run[p].pc = "decide" /\ run'[p] # run[p]
               /\ RequestFailed(run[p].ext) )
             => /\ run'[p].skipped = run[p].skipped + 1
                /\ run'[p].kept = run[p].kept
                /\ store' = store
                /\ run'[p].i = run[p].i + 1
                /\ run'[p].pc = IF run[p].i < Len(run[p].links)
                                THEN "extract" ELSE "done" ]_vars

\* C6 reached: the request for /a failed in both orchestrators, each went on
\* to the link after it: the job kept it, the service skipped the PDF
C6_Witness ==
    /\ article[UrlA].kind = "error"
    /\ run["req"].pc = "done" /\ run["req"].skipped = 2 /\ run["req"].kept = 0
    /\ run["job"].pc = "done" /\ run["job"].skipped = 1 /\ run["job"].kept = 1
    /\ Len(store) = 1 /\ store[1].url = UrlB

\* C7: a step of either orchestrator writes a row only from an extraction
\* that is not junk and whose text is non-empty once trimmed, and then adds
\* one to kept; on an extraction flagged is_junk it writes nothing and adds
\* one to skipped; so no stored row has an empty text.
C7_OnlyNonJunkIsWritten ==
    [][ /\ \A p \in {"req", "job"} :
            /\ ( store' # store \/ run'[p].wrote > run[p].wrote )
               => \E w \in {"req", "job"} :
                     /\ run[w].pc = "decide" /\ run'[w] # run[w]
                     /\ ~run[w].ext.is_junk
                     /\ Strip(run[w].ext.text) # <<>>
                     /\ run'[w].kept = run[w].kept + 1
                     /\ run'[w].skipped = run[w].skipped
            /\ ( run[p].pc = "decide" /\ run'[p] # run[p] /\ run[p].ext.is_junk )
               => /\ store' = store
                  /\ run'[p].wrote = run[p].wrote
                  /\ run'[p].skipped = run[p].skipped + 1
                  /\ run'[p].kept = run[p].kept
        /\ \A i \in 1..Len(store') : Strip(store'[i].raw_text) # <<>> ]_vars

\* C7 reached: each orchestrator has ended a run in which it kept the long
\* page /a and skipped the junk of /b.pdf
C7_Witness ==
    /\ \A p \in {"req", "job"} :
          run[p].pc = "done" /\ run[p].kept = 1 /\ run[p].skipped = 1
    /\ Len(store) = 1 /\ store[1].url = UrlA

\* C8: the scheduler thread starts a run_ingest_once cycle again and again,
\* however many of its cycles raise.
C8_SchedulerKeepsCycling == []<>(run["sched"].pc = "start")

\* C8 reached: the scheduler starts a cycle after one of its cycles raised
C8_Witness == run["sched"].pc = "start" /\ run["sched"].raisedBefore

\* the links a run_ingest_once call has been through whose extraction is not
\* junk
Persistable(p) ==
    { k \in 1..Len(run[p].links) :
        /\ k < run[p].i
        /\ ~ScraperExtractArticle(run[p].links[k].url,
                                  article[run[p].links[k].url]).is_junk }

\* C9: with the scheduler's call and a POST /run call interleaved link by
\* link, the kept and skipped of each call are the numbers of links that
\* call itself persisted and skipped, and no two rows share a url.
C9_CountsAreOwn ==
    /\ \A p \in IngestRunners :
          /\ run[p].kept = run[p].wrote
          /\ run[p].skipped = run[p].passed
          /\ run[p].pc \in {"extract", "decide", "done"} =>
                /\ run[p].kept = Cardinality(Persistable(p))
                /\ run[p].kept + run[p].skipped = run[p].i - 1
    /\ UrlsUnique(store)

\* C9 reached: both calls are in the middle of their loops, each having
\* persisted its first link
C9_Witness ==
    \A p \in IngestRunners :
        run[p].pc = "decide" /\ run[p].i = 2 /\ run[p].kept = 1

\* a step that is one update_text call
IsUpdateText == lastOp'.op = "update_text" /\ edits' = edits + 1

\* C11: update_text with a field outside {summary, context, translation,
\* notes, summary_feedback} raises to its caller and leaves every row as it
\* was; with a field of that set it does not raise.
C11_InvalidFieldRaises ==
    [][ IsUpdateText =>
          /\ lastOp'.field \notin {"summary", "context", "translation", "notes",
                                   "summary_feedback"}
                => (lastOp'.raised /\ store' = store)
          /\ lastOp'.field \in {"summary", "context", "translation", "notes",
                                "summary_feedback"}
                => ~lastOp'.raised ]_vars

\* C11 reached: update_text(id, "saved", ...) on an existing row has raised
C11_Witness ==
    /\ lastOp.op = "update_text" /\ lastOp.raised
    /\ lastOp.field = "saved" /\ lastOp.id \in 1..Len(store)

ScoreIn(items, topic) ==
    items[CHOOSE k \in 1..Len(items) : items[k][1] = topic][2]

\* place of a topic in TOPIC_TAXONOMY
TaxonomyIndex(topic) ==
    CHOOSE k \in 1..Len(TOPIC_TAXONOMY) : TOPIC_TAXONOMY[k] = topic

\* a ranks before b: a higher score, or the same score and declared earlier
RanksBefore(items, a, b) ==
    \/ ScoreIn(items, a) > ScoreIn(items, b)
    \/ /\ ScoreIn(items, a) = ScoreIn(items, b)
       /\ TaxonomyIndex(a) < TaxonomyIndex(b)

TaxonomyTopics == { TOPIC_TAXONOMY[k] : k \in 1..Len(TOPIC_TAXONOMY) }

\* C12: for every title, body and max_topics, guess_topics returns at most
\* max_topics topics, each a taxonomy topic of score > 0, ordered by score
\* descending with equal scores in TOPIC_TAXONOMY order; they are the first
\* max_topics of that order (so the list is a function of the input alone),
\* and the list is empty when no topic scores above 0.
C12_GuessTopicsRanksByScore ==
    called.fn = "guess_topics" =>
        \E items \in { Score(called.title \o <<" ">> \o called.body) } :
        \E r \in { called.result } :
            /\ Len(r) <= called.max_topics
            /\ \A k \in 1..Len(r) :
                   r[k] \in TaxonomyTopics /\ ScoreIn(items, r[k]) > 0
            /\ \A k \in 1..Len(r) : \A l \in (k + 1)..Len(r) :
                   RanksBefore(items, r[k], r[l])
            /\ \A topic \in TaxonomyTopics :
                   (ScoreIn(items, topic) > 0
                        /\ \A k \in 1..Len(r) : r[k] # topic)
                   => /\ Len(r) = called.max_topics
                      /\ \A k \in 1..Len(r) : RanksBefore(items, r[k], topic)
            /\ (\A topic \in TaxonomyTopics : ScoreIn(items, topic) = 0)
                   => r = <<>>
            /\ r = GuessTopics(called.title, called.body, called.max_topics)

\* a call where four topics score, two of them equally, and three are asked for
C12_Witness ==
    /\ called.fn = "guess_topics"
    /\ called.title = TitleHousing
    /\ called.body = <<"nhs", " ", "rail", " ", "data">>
    /\ called.max_topics = 3
    /\ called.result = <<"Digital", "Health and social care", "Housing">>

\* kw is in t at place i
MatchAt(t, kw, i) ==
    /\ i + Len(kw) - 1 <= Len(t)
    /\ \A j \in 1..Len(kw) : t[i + j - 1] = kw[j]

RECURSIVE CountMatches(_, _, _)
\* number of non-overlapping matches of kw in t from place i on
CountMatches(t, kw, i) ==
    IF i > Len(t) THEN 0
    ELSE IF MatchAt(t, kw, i) THEN 1 + CountMatches(t, kw, i + Len(kw))
         ELSE CountMatches(t, kw, i + 1)

RECURSIVE SumMatches(_, _)
\* the matches of all the keywords kws in t
SumMatches(t, kws) ==
    IF kws = {} THEN 0
    ELSE LET kw == CHOOSE k \in kws : TRUE
         IN  CountMatches(t, kw, 1) + SumMatches(t, kws \ {kw})

\* C17: the score _score gives a topic is the total number of non-overlapping
\* word-boundary matches of the topic's keywords in the lower-cased
\* title + " " + body, a keyword found k times counting k; a topic without
\* keywords scores 0.
C17_ScoreCountsMatches ==
    called.fn = "guess_topics" =>
        \E t \in { Lower(called.title \o <<" ">> \o called.body) } :
        \E items \in { Score(called.title \o <<" ">> \o called.body) } :
            \A topic \in TaxonomyTopics :
                ScoreIn(items, topic) = SumMatches(t, TOPIC_KEYWORDS[topic])

\* the minimum content threshold of each module, in characters
MinContent(module) == IF module = "scraper" THEN 250 ELSE 80

\* the page has an h1 whose cleaned text has 8 characters or more
QualifyingHeading(resp) == CharLen[FirstH1(resp.elements)] >= 8

\* C13: in HTML extraction a text shorter than the module's threshold (80 in
\* extractor_wales, 250 in the scraper) on a page without a qualifying
\* heading is marked junk, and a text at or above the threshold is never
\* marked junk.
C13_JunkThreshold ==
    (called.fn = "extract_article" /\ ~called.result.is_pdf) =>
        \E n \in { CharLen[called.result.text] } :
            /\ (n < MinContent(called.module) /\ ~QualifyingHeading(called.resp))
                   => called.result.is_junk
            /\ n >= MinContent(called.module) => ~called.result.is_junk

\* the scraper keeps a page whose text has exactly 250 characters
C13_Witness ==
    /\ called.fn = "extract_article"
    /\ called.module = "scraper"
    /\ CharLen[called.result.text] = 250
    /\ ~called.result.is_junk

\* the status of the response is not 2xx
BadStatus(resp) == resp.kind = "ok" /\ resp.status \notin 200..299

\* C14: a link whose article comes back with a status that is not 2xx is
\* handled as a network failure: the orchestrator adds one to skipped, writes
\* no row, and goes on with the remaining links.
C14_BadStatusIsSkipped ==
    [][ \A p \in {"req", "job"} :
          ( /\ run[p].pc = "decide" /\ run'[p] # run[p]
            /\ BadStatus(article[LinkUrl(p)]) )
          => /\ run'[p].skipped = run[p].skipped + 1
             /\ run'[p].kept = run[p].kept
             /\ store' = store
             /\ run'[p].pc = IF run[p].i < Len(run[p].links)
                             THEN "extract" ELSE "done" ]_vars

\* C15: with DATABASE_URL missing the ingest service fails at startup and
\* does not serve: GET /health never answers ok, and the scheduler is never
\* back at the start of a run after a run has raised.
C15_NoServiceWithoutStore ==
    ~service.configured =>
        /\ service.health # "ok"
        /\ ~(run["sched"].pc = "start" /\ run["sched"].raisedBefore)

\* the links a run_ingest_once call has been through whose extraction is
\* flagged junk, a failed request among them
Unusable(p) ==
    { k \in 1..Len(run[p].links) :
        /\ k < run[p].i
        /\ ScraperExtractArticle(run[p].links[k].url,
                                 article[run[p].links[k].url]).is_junk }

\* C16: a run_ingest_once call that completes returns kept + skipped =
\* total_links, total_links being the number of collected links, no two of
\* one url; kept is the number of upserts of the call, the links whose
\* extraction failed are in skipped, and at every point of the loop
\* kept + skipped is the number of links already processed.
C16_KeptPlusSkippedIsTotal ==
    \A p \in IngestRunners :
        run[p].pc \in {"extract", "decide", "done"} =>
            /\ \A j, k \in 1..Len(run[p].links) :
                   run[p].links[j].url = run[p].links[k].url => j = k
            /\ run[p].kept + run[p].skipped = run[p].i - 1
            /\ run[p].pc = "done" =>
                   run[p].kept + run[p].skipped = Len(run[p].links)
            /\ run[p].kept = run[p].wrote
            /\ run[p].skipped = Cardinality(Unusable(p))

\* a POST /run call has finished with two links, one stored, one skipped
C16_Witness ==
    /\ run["req"].pc = "done"
    /\ Len(run["req"].links) = 2
    /\ run["req"].kept = 1 /\ run["req"].skipped = 1

\* the row of the table that holds url
StoredFor(tbl, url) == tbl[CHOOSE k \in 1..Len(tbl) : tbl[k].url = url]

\* C18: for every link an orchestrator keeps, the topics of the record it
\* upserts are the topics guess_topics(title, text) gives for that link,
\* joined with ", "; for run_pipeline and for run_ingest_once.
C18_StoredTopicsAreGuessed ==
    [][ \A p \in {"req", "job"} :
          ( run[p].pc = "decide" /\ run'[p].wrote = run[p].wrote + 1 )
          => \E item \in { run[p].links[run[p].i] } :
                StoredFor(store', item.url).topics
                    = TopicsStr(GuessTopics(item.title, run[p].ext.text, 3)) ]_vars

StoredUrls(tbl) == { tbl[k].url : k \in 1..Len(tbl) }

\* the run of p is abandoned in this step
Abandoned(p) == run[p].pc \in {"start", "extract", "decide"} /\ run'[p].pc = "idle"

\* row is the whole record some call is persisting in this step, every
\* content column written
WholeUpsert(row) ==
    \E p \in IngestRunners :
        /\ run[p].pc = "decide"
        /\ ~run[p].ext.is_junk
        /\ Restrict(row, ContentColumns)
               = IngestRecord(run[p].links[run[p].i], run[p].ext)

\* C19: each persist is one committed upsert. A step, the abandoning of a
\* run included, never removes a row, so the set of stored urls only grows;
\* a row that differs after the step, or is new, holds every column and the
\* whole record of the link being persisted, never a part of it; and when a
\* run is abandoned at link k every row of another url, those of the links
\* before k among them, is as it was.
C19_AbandonedRunLeavesRowsWhole ==
    [][ /\ StoredUrls(store) \subseteq StoredUrls(store')
        /\ Len(store') >= Len(store)
        /\ \A k \in 1..Len(store) :
              /\ store'[k].url = store[k].url
              /\ store'[k] # store[k] =>
                    /\ WholeUpsert(store'[k])
                    /\ Restrict(store'[k], ReaderColumns)
                           = Restrict(store[k], ReaderColumns)
        /\ \A k \in (Len(store) + 1)..Len(store') :
              /\ DOMAIN store'[k] = ContentColumns \cup ReaderColumns
              /\ WholeUpsert(store'[k])
        /\ \A p \in IngestRunners :
              Abandoned(p) =>
                 IF run[p].pc = "decide"
                 THEN \A k \in 1..Len(store) :
                          store[k].url # LinkUrl(p) => store'[k] = store[k]
                 ELSE store' = store ]_vars

\* no call has ever completed and none is under way, yet the row of /a is in
\* the store with its text: the call that wrote it was abandoned
C19_Witness ==
    /\ run["req"].pc = "idle"
    /\ run["sched"].pc = "idle" /\ ~ingestDone
    /\ Len(store) = 1
    /\ store[1].url = UrlA
    /\ store[1].raw_text # None /\ store[1].raw_text # <<>>

====
